---- MODULE Spec2Model ----
(***************************************************************************)
(* A model of the linky conversation agent: the response tracker, the      *)
(* conversation store, the mode-aware sender, the response composer and     *)
(* the agent run that drives them.                                          *)
(*                                                                          *)
(* Strings are sequences of lexical tokens (a word, a blank " ", a colon    *)
(* ":", a dash "-"), so that trimming, splitting, lower-casing and          *)
(* whitespace replacement are computed and not assumed.                     *)
(* Time is counted in whole days.                                           *)
(***************************************************************************)
EXTENDS Integers, Sequences, FiniteSets, TLC

VARIABLES
  \* ---- ResponseTracker (src/src/utils/response-tracker.ts) ----
  responses,    \* this.responses: insertion-ordered map, a sequence of records
  dataFile,     \* content of logs/response-history.json
  loadPc,       \* position of the un-awaited loadResponseHistory
  trackerOp,    \* the awaited tracker call in flight, if any
  now,          \* the wall clock, in days
  recorded,     \* history: per conversationId the contents recorded so far
  runs          \* number of processes started so far

trackerVars == <<responses, dataFile, loadPc, trackerOp, now, recorded, runs>>

VARIABLES
  \* ---- YamlConfig conversation store (yaml-config.ts) ----
  conversations \* this.conversations: conversationId -> ConversationHistory

storeVars == <<conversations>>

VARIABLES
  \* ---- config and SafeModeHandler (config.ts, safe-mode-handler.ts) ----
  runMode,         \* config.runMode, handed to the SafeModeHandler
  requireApproval, \* config.safeMode.requireApproval
  actionLogs,      \* SafeModeHandler.actionLogs (send actions only)
  actualSends      \* the calls that reached performActualSend

sendVars == <<runMode, requireApproval, actionLogs, actualSends>>

VARIABLES
  \* ---- GeminiClient response composer (gemini-client.ts) ----
  aiConfig,  \* the parts of this.aiConfig that generateResponse reads
  gr         \* the last generateResponse call: its inputs, trace and result

composeVars == <<aiConfig, gr>>

VARIABLES
  \* ---- LinkedInAgent.run (linkedin-agent.ts) ----
  agentPc,       \* position of the process: off, built, ready, scan, handle, send
  threads,       \* the conversation list the page shows in this run
  scanIdx,       \* loop index of getUnreadMessages
  messages,      \* the messages getUnreadMessages has collected
  lastClassify,  \* the last classifyMessage call and its result
  counterpartOf  \* history: per conversationId the thread participant whose
                 \* reply was recorded under it last

agentVars == <<agentPc, threads, scanIdx, messages, lastClassify, counterpartOf>>

VARIABLES
  \* ---- analysis helpers (gemini-client.ts, conversation-strategy-agent.ts,
  \*      language-detection-agent.ts, yaml-config.ts) ----
  analysis  \* the last call of an analysis helper: its name, its inputs, the
            \* outcomes of its requests and its result

analysisVars == <<analysis>>

vars == <<trackerVars, storeVars, sendVars, composeVars, agentVars, analysisVars>>

-----------------------------------------------------------------------------
(* Bounds *)

MaxNow == 31
MaxRecorded == 2
MaxRuns == 2
MaxTurns == 4
MaxSends == 3
MaxThreads == 1
MaxScore == 100

-----------------------------------------------------------------------------
(* Strings as token sequences *)

WS == " "

\* String.prototype.toLowerCase, token by token
LowerTok(t) ==
  CASE t = "Ann" -> "ann"
    [] t = "ANN" -> "ann"
    [] t = "Lee" -> "lee"
    [] t = "Bob" -> "bob"
    [] t = "Floris" -> "floris"
    [] OTHER -> t

ToLowerCase(s) == [i \in 1..Len(s) |-> LowerTok(s[i])]

\* String.prototype.replace(/\s+/g, '-'): every run of blanks becomes one dash
RECURSIVE ReplaceWs(_)
ReplaceWs(s) ==
  IF s = <<>> THEN <<>>
  ELSE IF Head(s) = WS
       THEN IF Len(s) > 1 /\ s[2] = WS
            THEN ReplaceWs(Tail(s))
            ELSE <<"-">> \o ReplaceWs(Tail(s))
       ELSE <<Head(s)>> \o ReplaceWs(Tail(s))

\* `linkedin-${name.toLowerCase().replace(/\s+/g, '-')}`
ConversationId(name) == <<"linkedin-">> \o ReplaceWs(ToLowerCase(name))

\* a participant name as the thread list shows it, and the first name that
\* prefixes the message snippet
Names == {<<"Ann", " ", "Lee">>, <<"Ann">>}

ConvIds == {ConversationId(n) : n \in Names}

Contents == {<<"job">>, <<"offer">>}
Replies == {<<"thanks">>}

-----------------------------------------------------------------------------
(* ResponseTracker *)

DaysToKeep == 30
TickDays == {30, 31}

\* what fs.readFile + JSON.parse make of the data file
FileMissing == [kind |-> "missing", records |-> <<>>]
FileOf(recs) == [kind |-> "json", records |-> recs]

ResponseRecord(id, name, at, content, response) ==
  [conversationId |-> id, recipientName |-> name, respondedAt |-> at,
   messageContent |-> content, generatedResponse |-> response]

\* Map.prototype.has
MapHas(m, id) == \E i \in 1..Len(m) : m[i].conversationId = id

\* Map.prototype.get (only used where MapHas holds)
MapGet(m, id) == m[CHOOSE i \in 1..Len(m) : m[i].conversationId = id]

\* a faulty set that appends even when the key is present
MapSetAppending(m, id, rec) == Append(m, rec)

\* Map.prototype.set: overwrite in place, or append a new key
MapSet(m, id, rec) ==
  IF MapHas(m, id)
  THEN [i \in 1..Len(m) |-> IF m[i].conversationId = id THEN rec ELSE m[i]]
  ELSE Append(m, rec)

\* records.forEach(record => this.responses.set(record.conversationId, record))
RECURSIVE SetAll(_, _)
SetAll(m, recs) ==
  IF recs = <<>> THEN m
  ELSE SetAll(MapSet(m, Head(recs).conversationId, Head(recs)), Tail(recs))

\* hasResponded
hasResponded(id) == MapHas(responses, id)

\* the entries of getResponseHistory for one conversationId
HistoryOf(id) == SelectSeq(responses, LAMBDA r : r.conversationId = id)

\* the for-loop of cleanOldResponses: drop records older than the cutoff
CleanedMap(m, daysToKeep) ==
  SelectSeq(m, LAMBDA r : ~(r.respondedAt < now - daysToKeep))

TrackerInit ==
  /\ responses = <<>>
  /\ dataFile = FileMissing
  /\ loadPc = "unbuilt"
  /\ trackerOp = "idle"
  /\ now = 0
  /\ recorded = [id \in ConvIds |-> <<>>]
  /\ runs = 0

\* constructor: a fresh map, and loadResponseHistory started but not awaited
Construct ==
  /\ loadPc = "unbuilt"
  /\ runs < MaxRuns
  /\ runs' = runs + 1
  /\ responses' = <<>>
  /\ loadPc' = "reading"
  /\ trackerOp' = "idle"
  /\ UNCHANGED <<dataFile, now, recorded>>

\* loadResponseHistory after its await: parsed records are set into the map;
\* a missing or unparsable file replaces the map by an empty one
LoadComplete ==
  /\ loadPc = "reading"
  /\ loadPc' = "done"
  /\ responses' = IF dataFile.kind = "json"
                  THEN SetAll(responses, dataFile.records)
                  ELSE <<>>
  /\ UNCHANGED <<dataFile, trackerOp, now, recorded, runs>>

\* recordResponse up to its await of saveResponseHistory
recordResponse(id, name, content, response) ==
  /\ loadPc \in {"reading", "done"}
  /\ trackerOp = "idle"
  /\ Len(recorded[id]) < MaxRecorded
  /\ responses' = MapSet(responses, id,
                         ResponseRecord(id, name, now, content, response))
  /\ recorded' = [recorded EXCEPT ![id] = Append(@, content)]
  /\ trackerOp' = "saving"
  /\ UNCHANGED <<dataFile, loadPc, now, runs>>

\* saveResponseHistory after mkdir: the map is serialised as it is then;
\* a failing write is logged and swallowed
SaveComplete ==
  /\ trackerOp = "saving"
  /\ trackerOp' = "idle"
  /\ \E ok \in BOOLEAN : dataFile' = IF ok THEN FileOf(responses) ELSE dataFile
  /\ UNCHANGED <<responses, loadPc, now, recorded, runs>>

\* cleanOldResponses(daysToKeep)
cleanOldResponses(daysToKeep) ==
  /\ loadPc \in {"reading", "done"}
  /\ trackerOp = "idle"
  /\ responses' = CleanedMap(responses, daysToKeep)
  /\ trackerOp' = IF Len(responses') < Len(responses) THEN "saving" ELSE "idle"
  /\ UNCHANGED <<dataFile, loadPc, now, recorded, runs>>

\* the process ends; only the file survives
Exit ==
  /\ loadPc = "done"
  /\ trackerOp = "idle"
  /\ loadPc' = "unbuilt"
  /\ responses' = <<>>
  /\ UNCHANGED <<dataFile, trackerOp, now, recorded, runs>>

Tick ==
  /\ \E d \in TickDays : now + d <= MaxNow /\ now' = now + d
  /\ UNCHANGED <<responses, dataFile, loadPc, trackerOp, recorded, runs>>

TrackerNext ==
  \/ Construct
  \/ LoadComplete
  \/ \E n \in Names, c \in Contents, r \in Replies :
       recordResponse(ConversationId(n), n, c, r)
  \/ SaveComplete
  \/ cleanOldResponses(DaysToKeep)
  \/ Exit
  \/ Tick

-----------------------------------------------------------------------------
(* Conversation store *)

Senders == {"user", "recruiter"}
Turns == [sender : Senders, content : Contents]

NoFit ==
  [present |-> FALSE, overallScore |-> 0, recommendation |-> "none",
   missingInfo |-> <<>>]

\* the phase rule with an off-by-one threshold
PhaseAfterPushEarly(conversation) ==
  IF Len(conversation.messages) >= 2 THEN "follow_up"
  ELSE conversation.currentPhase

\* if (conversation.messages.length > 2) conversation.currentPhase = 'follow_up'
PhaseAfterPush(conversation) ==
  IF Len(conversation.messages) > 2 THEN "follow_up"
  ELSE conversation.currentPhase

\* the store after updateConversationHistory(conversationId, message)
UpdatedConversations(convs, id, message) ==
  LET existing == IF id \in DOMAIN convs
                  THEN convs[id]
                  ELSE [messages |-> <<>>, currentPhase |-> "initial",
                        fitAnalysis |-> NoFit]
      pushed == [existing EXCEPT !.messages = Append(@, message)]
      updated == [pushed EXCEPT !.currentPhase = PhaseAfterPush(pushed)]
  IN  [i \in DOMAIN convs \cup {id} |-> IF i = id THEN updated ELSE convs[i]]

\* the store after clearConversationHistory(conversationId)
ClearedConversations(convs, id) ==
  [i \in DOMAIN convs \ {id} |-> convs[i]]

StoreInit == conversations = [i \in {} |-> NoFit]

RECURSIVE TotalTurns(_, _)
TotalTurns(convs, ids) ==
  IF ids = {} THEN 0
  ELSE LET id == CHOOSE i \in ids : TRUE
       IN  Len(convs[id].messages) + TotalTurns(convs, ids \ {id})

updateConversationHistory(id, message) ==
  /\ TotalTurns(conversations, DOMAIN conversations) < MaxTurns
  /\ conversations' = UpdatedConversations(conversations, id, message)

clearConversationHistory(id) ==
  /\ conversations' = ClearedConversations(conversations, id)

StoreNext ==
  \/ \E id \in ConvIds, m \in Turns : updateConversationHistory(id, m)
  \/ \E id \in ConvIds : clearConversationHistory(id)

-----------------------------------------------------------------------------
(* Run mode and the mode-aware sender *)

\* values of the RUN_MODE environment variable; <<>> is "not set"
EnvRunModes == {<<>>, <<"safe">>, <<"debug">>, <<"DEBUG">>, <<"production">>,
                <<"prod">>}

LowerMode(t) == IF t = "DEBUG" THEN "debug" ELSE t

\* getRunMode: process.env.RUN_MODE?.toLowerCase() through the switch
getRunMode(env) ==
  LET mode == [i \in 1..Len(env) |-> LowerMode(env[i])]
  IN  CASE mode = <<"production">> -> "production"
        [] mode = <<"debug">> -> "debug"
        [] OTHER -> "safe"

\* requestApproval: auto-approves unless approval is required
requestApproval(required) == ~required

\* sendMessage without the early return of safe mode
SendPathNoSafeReturn(mode, required, sendOk) ==
  IF mode = "debug" /\ ~requestApproval(required)
  THEN [action |-> "message_rejected", success |-> TRUE,
        reached |-> FALSE, throws |-> FALSE]
  ELSE [action |-> "send_message", success |-> sendOk,
        reached |-> TRUE, throws |-> ~sendOk]

\* the path sendMessage takes: what it logs, whether performActualSend is
\* reached, and whether the call throws (sendOk: performActualSend succeeds)
SendPath(mode, required, sendOk) ==
  IF mode = "safe"
  THEN [action |-> "mock_send_message", success |-> TRUE,
        reached |-> FALSE, throws |-> FALSE]
  ELSE IF mode = "debug" /\ ~requestApproval(required)
  THEN [action |-> "message_rejected", success |-> TRUE,
        reached |-> FALSE, throws |-> FALSE]
  ELSE [action |-> "send_message", success |-> sendOk,
        reached |-> TRUE, throws |-> ~sendOk]

\* the configuration when no environment variable is set
SendInit ==
  /\ runMode = getRunMode(<<>>)
  /\ requireApproval = FALSE
  /\ actionLogs = <<>>
  /\ actualSends = <<>>

\* the configuration drawn from the environment
SendInitEnv ==
  /\ \E env \in EnvRunModes : runMode = getRunMode(env)
  /\ requireApproval \in BOOLEAN
  /\ actionLogs = <<>>
  /\ actualSends = <<>>

sendMessage(recipient, message) ==
  /\ Len(actionLogs) < MaxSends
  /\ \E sendOk \in BOOLEAN :
       LET path == SendPath(runMode, requireApproval, sendOk)
       IN  /\ actionLogs' = Append(actionLogs,
                                    [action |-> path.action,
                                     recipient |-> recipient,
                                     success |-> path.success])
           /\ actualSends' = IF path.reached
                              THEN Append(actualSends,
                                          [recipient |-> recipient,
                                           message |-> message])
                              ELSE actualSends
  /\ UNCHANGED <<runMode, requireApproval>>

SendNext == \E n \in Names, r \in Replies : sendMessage(n, r)

-----------------------------------------------------------------------------
(* Response composer: GeminiClient.generateResponse *)

\* String.prototype.trim
RECURSIVE TrimStart(_)
TrimStart(s) == IF s # <<>> /\ Head(s) = WS THEN TrimStart(Tail(s)) ELSE s

RECURSIVE TrimEnd(_)
TrimEnd(s) ==
  IF s # <<>> /\ s[Len(s)] = WS THEN TrimEnd(SubSeq(s, 1, Len(s) - 1)) ELSE s

Trim(s) == TrimEnd(TrimStart(s))

\* the catch block of generateResponse
FallbackResponse ==
  <<"Thank you for reaching out. I'd be happy to learn more about this opportunity. Could you share some details about the role and company?">>

\* texts the generation service may reply with
RawTexts == {<<>>, <<" ">>, <<"Sure">>, <<" ", "Sure", " ">>, <<"Call", " ", "me">>}

\* outcome of one model.generateContent request
GenOutcomes == {[ok |-> FALSE, text |-> <<>>]} \cup [ok : {TRUE}, text : RawTexts]

\* outcome of the validator request: the request fails, its reply is not
\* JSON, or it parses to an object whose passed field is true, false or absent
Verdicts ==
  [kind : {"error", "unparsable"}, passed : {"missing"}, language_match : {TRUE}]
  \cup [kind : {"json"}, passed : {"true", "false", "missing"},
         language_match : BOOLEAN]

\* a validator whose catch block rejects the reply
validateResponseFailClosed(verdict) ==
  IF verdict.kind = "json" THEN verdict.passed = "true" ELSE FALSE

\* validateResponse: validation.passed, or true from the catch block
validateResponse(verdict) ==
  IF verdict.kind = "json" THEN verdict.passed = "true" ELSE TRUE

AbsentHistory ==
  [present |-> FALSE, messages |-> <<>>, currentPhase |-> "initial",
   fitAnalysis |-> NoFit]

\* the conversationHistory argument: none, or a store entry
ComposeHistories ==
  {AbsentHistory}
  \cup {[present |-> TRUE, messages |-> m, currentPhase |-> ph, fitAnalysis |-> NoFit] :
          m \in {<<[sender |-> "recruiter", content |-> <<"job">>]>>,
                 <<[sender |-> "user", content |-> <<"offer">>]>>},
          ph \in {"initial", "follow_up"}}

\* the latest recruiter message that generateFollowUpResponse filters for
HasRecruiterTurn(turns) ==
  \E i \in 1..Len(turns) : turns[i].sender = "recruiter"

\* buildPrompt throws when the follow-up path finds no recruiter message
BuildPromptThrows(history) ==
  /\ history.present
  /\ history.currentPhase # "initial"
  /\ ~HasRecruiterTurn(history.messages)

\* outcome of the evaluateJobFit request: the request fails, its reply is
\* not JSON, or it parses to an analysis
FitOutcomes ==
  [kind : {"error", "unparsable"}, overallScore : {0},
   recommendation : {"none"}, missingInfo : {<<>>}]
  \cup [kind : {"json"}, overallScore : {0, 50, 80, 100},
         recommendation : {"interested", "exploring", "decline"},
         missingInfo : {<<>>, <<"Salary details">>}]

\* the outcomes the composer and the run are explored with
RunFitOutcomes ==
  {f \in FitOutcomes :
     \/ f.kind = "error"
     \/ f.overallScore = 80 /\ f.recommendation = "interested" /\ f.missingInfo = <<>>}

\* a catch block that answers with a declining analysis
evaluateJobFitDeclining(f) ==
  IF f.kind = "json"
  THEN [present |-> TRUE, overallScore |-> f.overallScore,
        recommendation |-> f.recommendation, missingInfo |-> f.missingInfo]
  ELSE [present |-> TRUE, overallScore |-> 0, recommendation |-> "decline",
        missingInfo |-> <<>>]

\* evaluateJobFit: the parsed analysis, or the cautious fallback analysis of
\* the catch block
evaluateJobFit(f) ==
  IF f.kind = "json"
  THEN [present |-> TRUE, overallScore |-> f.overallScore,
        recommendation |-> f.recommendation, missingInfo |-> f.missingInfo]
  ELSE [present |-> TRUE, overallScore |-> 50, recommendation |-> "exploring",
        missingInfo |-> <<"Salary details", "Work arrangement details">>]

\* the history after buildPrompt: on the follow-up path a missing fit
\* analysis is computed from the last recruiter message and cached
HistoryAfterPrompt(history, f) ==
  IF /\ history.present
     /\ history.currentPhase # "initial"
     /\ ~history.fitAnalysis.present
     /\ HasRecruiterTurn(history.messages)
  THEN [history EXCEPT !.fitAnalysis = evaluateJobFit(f)]
  ELSE history

\* Math.max(0.3, temperature - 0.2), in tenths
RetryTemperature(t) == IF t - 2 > 3 THEN t - 2 ELSE 3

\* a catch block that hands back the reply generated so far
GenerationCatchKeepsReply(response) ==
  [kind |-> "returned", text |-> response]

\* the catch block of generateResponse: the fixed sentence, whatever was
\* generated before the error
GenerationCatch(response) ==
  [kind |-> "returned", text |-> FallbackResponse]

\* a retry decision that ignores regenerate_on_low_quality
ShouldRegenerateAlways(cfg, isValid) == ~isValid

\* if (!isValid && this.aiConfig.quality.regenerate_on_low_quality)
ShouldRegenerate(cfg, isValid) == ~isValid /\ cfg.regenerate

\* generateResponse, from its arguments and the outcomes of its requests:
\* o.gen1 the first generation, o.verdict the validation, o.regen the retry
GenerateResponse(cfg, history, o) ==
  LET first == Trim(o.gen1.text)
      base == [history |-> HistoryAfterPrompt(history, o.fit), error |-> "none", requests |-> 0,
               first |-> <<>>, validated |-> FALSE, isValid |-> TRUE,
               verdict |-> "none",
               regenerated |-> FALSE, regenText |-> <<>>,
               retryTemperature |-> 0,
               result |-> [kind |-> "none", text |-> <<>>]]
  IN  IF BuildPromptThrows(history)
      THEN [base EXCEPT !.error = "prompt", !.result = GenerationCatch(<<>>)]
      ELSE IF ~o.gen1.ok
      THEN [base EXCEPT !.error = "gen1", !.requests = 1,
                        !.result = GenerationCatch(<<>>)]
      ELSE IF ~cfg.validation
      THEN [base EXCEPT !.requests = 1, !.first = first,
                        !.result = [kind |-> "returned", text |-> first]]
      ELSE IF ~ShouldRegenerate(cfg, validateResponse(o.verdict))
      THEN [base EXCEPT !.requests = 1, !.first = first, !.validated = TRUE,
                        !.isValid = validateResponse(o.verdict),
                        !.verdict = o.verdict.kind,
                        !.result = [kind |-> "returned", text |-> first]]
      ELSE IF ~o.regen.ok
      THEN [base EXCEPT !.error = "regen", !.requests = 2, !.first = first,
                        !.validated = TRUE, !.isValid = FALSE,
                        !.verdict = o.verdict.kind,
                        !.regenerated = TRUE,
                        !.retryTemperature = RetryTemperature(cfg.temperature),
                        !.result = GenerationCatch(first)]
      ELSE [base EXCEPT !.requests = 2, !.first = first,
                        !.validated = TRUE, !.isValid = FALSE,
                        !.verdict = o.verdict.kind,
                        !.regenerated = TRUE, !.regenText = Trim(o.regen.text),
                        !.retryTemperature = RetryTemperature(cfg.temperature),
                        !.result = [kind |-> "returned",
                                    text |-> Trim(o.regen.text)]]

\* the defaults of loadAIConfig
\* the default of quality.min_confidence_score, in tenths
MinConfidence == 6

DefaultAIConfig ==
  [validation |-> TRUE, regenerate |-> TRUE, temperature |-> 7,
   minConfidence |-> MinConfidence]

NoCall ==
  [history |-> AbsentHistory, error |-> "none", requests |-> 0,
   first |-> <<>>, validated |-> FALSE, isValid |-> TRUE, verdict |-> "none",
   regenerated |-> FALSE, regenText |-> <<>>, retryTemperature |-> 0,
   result |-> [kind |-> "none", text |-> <<>>]]

ComposeInit == aiConfig = DefaultAIConfig /\ gr = NoCall

\* ai-config.yaml as loaded
ComposeInitConfig ==
  /\ aiConfig \in [validation : BOOLEAN, regenerate : BOOLEAN,
                    temperature : {3, 7}, minConfidence : {MinConfidence}]
  /\ gr = NoCall

generateResponse(history) ==
  /\ \E g1 \in GenOutcomes, v \in Verdicts, g2 \in GenOutcomes,
        f \in RunFitOutcomes :
       gr' = GenerateResponse(aiConfig, history,
                              [gen1 |-> g1, verdict |-> v, regen |-> g2,
                               fit |-> f])
  /\ UNCHANGED aiConfig

ComposeNext == \E h \in ComposeHistories : generateResponse(h)

-----------------------------------------------------------------------------
(* Sender classifier: GeminiClient.classifyMessage *)


\* the confidence of a reply that reports none
AbsentConfidence == -1

\* outcome of the classification requests: the primary request fails (then
\* fallback is the outcome of the request to the fallback model), or its
\* reply is too short, is not JSON, or parses to a classification ("" when
\* absent) and a confidence in tenths
ClassifyOutcomes ==
  [kind : {"error"}, classification : {""}, confidence : {0},
   fallback : {[ok |-> FALSE, text |-> <<>>]}
              \cup [ok : {TRUE},
                    text : {<<>>, <<"INTERNAL_RECRUITER">>, <<"unsure">>,
                            <<"an", " ", "EXTERNAL_RECRUITER">>}]]
  \cup [kind : {"short", "unparsable"}, classification : {""},
         confidence : {0}, fallback : {[ok |-> FALSE, text |-> <<>>]}]
  \cup [kind : {"json"},
         classification : {"INTERNAL_RECRUITER", "EXTERNAL_RECRUITER", "OTHER", ""},
         confidence : {AbsentConfidence, 0, 3, 5, 9}, fallback : {[ok |-> FALSE, text |-> <<>>]}]

\* String.prototype.includes for one token
Includes(s, tok) == \E i \in 1..Len(s) : s[i] = tok

\* the last resort of classifyMessage: the known tokens are looked for in
\* a text
MatchCategoryTokens(text) ==
  IF Includes(text, "INTERNAL_RECRUITER") THEN "INTERNAL_RECRUITER"
  ELSE IF Includes(text, "EXTERNAL_RECRUITER") THEN "EXTERNAL_RECRUITER"
  ELSE "OTHER"

\* parsed.confidence || 0.5, in tenths
ParsedConfidence(c) == IF c = AbsentConfidence \/ c = 0 THEN 5 ELSE c

\* the classification obtained from the service
ClassifyByService(o) ==
  CASE o.kind = "error" ->
         [category |-> IF o.fallback.ok THEN MatchCategoryTokens(o.fallback.text)
                       ELSE "OTHER",
          requests |-> 2, byHistory |-> FALSE]
    [] o.kind \in {"short", "unparsable"} ->
         [category |-> "OTHER", requests |-> 1, byHistory |-> FALSE]
    [] OTHER ->
         LET classification == IF o.classification = "" THEN "OTHER"
                               ELSE o.classification
             confidence == ParsedConfidence(o.confidence)
         IN  [category |-> IF confidence < aiConfig.minConfidence THEN "OTHER"
                           ELSE classification,
              requests |-> 1, byHistory |-> FALSE]

\* a classifier that does not consult the response history
ClassifyMessageIgnoringHistory(map, senderName, o) == ClassifyByService(o)

\* classifyMessage: a sender with a tracked response is a known recruiter;
\* otherwise the service decides
ClassifyMessage(map, senderName, o) ==
  IF MapHas(map, ConversationId(senderName))
  THEN [category |-> "EXTERNAL_RECRUITER", requests |-> 0, byHistory |-> TRUE]
  ELSE ClassifyByService(o)

\* the senders classifyMessage is called for; the last one differs from
\* "Ann Lee" in case and in the blanks between the words
ClassifySenders == Names \cup {<<"ANN", " ", " ", "Lee">>}

\* the message texts classifyMessage is called with; the last one holds a
\* category token
ClassifyContents == Contents \cup {<<"an", " ", "EXTERNAL_RECRUITER">>}

\* the maps the tracker may hold when classifyMessage is called
TrackedMaps ==
  {<<>>,
   <<ResponseRecord(ConversationId(<<"Ann">>), <<"Ann">>, 0, <<"job">>, <<"Sure">>)>>,
   <<ResponseRecord(ConversationId(<<"Ann", " ", "Lee">>), <<"Ann", " ", "Lee">>,
                    0, <<"offer">>, <<"Sure">>)>>,
   <<ResponseRecord(ConversationId(<<"Ann">>), <<"Ann">>, 0, <<"job">>, <<"Sure">>),
     ResponseRecord(ConversationId(<<"Ann", " ", "Lee">>), <<"Ann", " ", "Lee">>,
                    0, <<"offer">>, <<"Sure">>)>>}

-----------------------------------------------------------------------------
(* The agent run: LinkedInAgent.run and getUnreadMessages *)

\* the message snippets a thread may show
Snippets == {<<"Ann", ":", " ", "job">>, <<"job">>,
             <<"Floris", ":", " ", "offer">>, <<"Ann", ":", " ">>}

\* a thread of the conversation list: participant name, snippet and the age
\* in days that parseLinkedInTimestamp derives (0 also for "no age")
Threads == [participant : Names, snippet : Snippets, age : {0, 8}]

\* what extractFullConversation may return
Extractions ==
  {<<>>,
   <<[sender |-> "recruiter", content |-> <<"job">>],
     [sender |-> "user", content |-> <<"Sure">>],
     [sender |-> "recruiter", content |-> <<"job">>]>>}

\* index of the first colon of a string, 0 if there is none
FirstColon(s) ==
  IF Includes(s, ":") THEN CHOOSE i \in 1..Len(s) :
                             s[i] = ":" /\ \A j \in 1..(i - 1) : s[j] # ":"
  ELSE 0

\* messageSnippet.split(':', 2): the first two of the colon-separated parts
SplitColon2(s) ==
  LET rest == SubSeq(s, FirstColon(s) + 1, Len(s))
  IN  <<SubSeq(s, 1, FirstColon(s) - 1),
        IF FirstColon(rest) = 0 THEN rest
        ELSE SubSeq(rest, 1, FirstColon(rest) - 1)>>

\* the sender and content getUnreadMessages reads off a thread
ParsedThread(t) ==
  IF Includes(t.snippet, ":")
  THEN [actualSender |-> Trim(SplitColon2(t.snippet)[1]),
        messageContent |-> Trim(SplitColon2(t.snippet)[2])]
  ELSE [actualSender |-> t.participant, messageContent |-> t.snippet]

\* the conditions under which getUnreadMessages skips a thread before
\* classifying it
SkipsThread(t, map) ==
  \/ t.age > 7
  \/ MapHas(map, ConversationId(t.participant))
  \/ Includes(ToLowerCase(ParsedThread(t).actualSender), "floris")
  \/ ParsedThread(t).messageContent = <<>>

\* updateConversationHistory for each extracted message in turn
RECURSIVE UpdatedWithAll(_, _, _)
UpdatedWithAll(convs, id, msgs) ==
  IF msgs = <<>> THEN convs
  ELSE UpdatedWithAll(UpdatedConversations(convs, id, Head(msgs)), id, Tail(msgs))

\* run(): the store after resynchronising the conversation from the page
SyncedConversations(convs, map, id, extracted) ==
  IF extracted # <<>>
  THEN LET rebuilt == UpdatedWithAll(ClearedConversations(convs, id), id, extracted)
       IN  [rebuilt EXCEPT ![id] =
              [@ EXCEPT !.currentPhase =
                 IF Len(rebuilt[id].messages) > 2 THEN "follow_up" ELSE "initial"]]
  ELSE IF MapHas(map, id) /\ id \in DOMAIN convs
  THEN [convs EXCEPT ![id] = [@ EXCEPT !.currentPhase = "follow_up"]]
  ELSE convs

\* run(): the store after adding the inbound message unless it is the last
\* recruiter turn already
WithInboundMessage(convs, id, content) ==
  IF /\ id \in DOMAIN convs
     /\ convs[id].messages # <<>>
     /\ convs[id].messages[Len(convs[id].messages)].sender = "recruiter"
     /\ Trim(convs[id].messages[Len(convs[id].messages)].content) = Trim(content)
  THEN convs
  ELSE UpdatedConversations(convs, id, [sender |-> "recruiter", content |-> content])

\* the record of a classifyMessage call: its arguments and its result
ClassifyCall(map, senderName, content, withHistory, o) ==
  [senderName |-> senderName, content |-> content, withHistory |-> withHistory,
   outcome |-> o, result |-> ClassifyMessage(map, senderName, o)]

NoClassify ==
  [senderName |-> <<>>, content |-> <<>>, withHistory |-> FALSE,
   outcome |-> [kind |-> "none"],
   result |-> [category |-> "", requests |-> 0, byHistory |-> FALSE]]

\* the service outcomes the run is explored with: a parsed, confident reply
RunClassifyOutcomes ==
  {o \in ClassifyOutcomes : o.kind = "json" /\ o.confidence = 9}

AgentInit ==
  /\ agentPc = "off"
  /\ threads = <<>>
  /\ scanIdx = 1
  /\ messages = <<>>
  /\ lastClassify = NoClassify
  /\ counterpartOf = [id \in ConvIds |-> <<>>]

\* new LinkedInAgent(): the handler, the client with its empty conversation
\* store, and the tracker, whose load starts
AgentConstruct ==
  /\ agentPc = "off"
  /\ Construct
  /\ agentPc' = "built"
  /\ conversations' = [i \in {} |-> NoFit]
  /\ UNCHANGED <<analysisVars,
                 sendVars, composeVars, threads, scanIdx, messages,
                 lastClassify, counterpartOf>>

\* initialize(): cleanOldResponses(30) runs in the same turn of the event
\* loop as the constructor, before the file read can have completed
AgentInitialize ==
  /\ agentPc = "built"
  /\ loadPc = "reading"
  /\ cleanOldResponses(DaysToKeep)
  /\ agentPc' = "ready"
  /\ UNCHANGED <<analysisVars,
                 storeVars, sendVars, composeVars, threads, scanIdx, messages,
                 lastClassify, counterpartOf>>

\* getUnreadMessages up to its loop: the first threads of the page
StartScan ==
  /\ agentPc = "ready"
  /\ trackerOp = "idle"
  /\ \E n \in 0..MaxThreads : threads' \in [1..n -> Threads]
  /\ scanIdx' = 1
  /\ messages' = <<>>
  /\ agentPc' = IF threads' = <<>> THEN "handle" ELSE "scan"
  /\ UNCHANGED <<analysisVars,
                 trackerVars, storeVars, sendVars, composeVars, lastClassify,
                 counterpartOf>>

\* one iteration of the loop of getUnreadMessages
ScanThread ==
  /\ agentPc = "scan"
  /\ \E o \in RunClassifyOutcomes :
       LET t == threads[scanIdx]
           p == ParsedThread(t)
           c == ClassifyCall(responses, p.actualSender, p.messageContent, FALSE, o)
       IN  IF SkipsThread(t, responses)
           THEN UNCHANGED <<messages, lastClassify>>
           ELSE /\ lastClassify' = c
                /\ messages' =
                     IF c.result.category \in {"INTERNAL_RECRUITER", "EXTERNAL_RECRUITER"}
                     THEN Append(messages,
                                 [senderName |-> p.actualSender,
                                  content |-> p.messageContent,
                                  messageClassification |-> c.result.category,
                                  thread |-> t.participant])
                     ELSE messages
  /\ scanIdx' = scanIdx + 1
  /\ agentPc' = IF scanIdx' > Len(threads) THEN "handle" ELSE "scan"
  /\ UNCHANGED <<analysisVars,
                 trackerVars, storeVars, sendVars, composeVars, threads,
                 counterpartOf>>

\* the body of the message loop of run() up to the await inside
\* recordResponse: resynchronise, add the message, re-classify, compose,
\* add the reply, record it
HandleMessage ==
  /\ agentPc = "handle"
  /\ messages # <<>>
  /\ trackerOp = "idle"
  /\ \E extracted \in Extractions, o \in RunClassifyOutcomes,
        g1 \in {[ok |-> FALSE, text |-> <<>>], [ok |-> TRUE, text |-> <<"Sure">>]},
        f \in RunFitOutcomes :
       LET m == Head(messages)
           id == ConversationId(m.senderName)
           synced == SyncedConversations(conversations, responses, id, extracted)
           added == WithInboundMessage(synced, id, m.content)
           c == ClassifyCall(responses, m.senderName, m.content, TRUE, o)
           g == GenerateResponse(aiConfig,
                  [present |-> TRUE, messages |-> added[id].messages,
                   currentPhase |-> added[id].currentPhase,
                   fitAnalysis |-> added[id].fitAnalysis],
                  [gen1 |-> g1,
                   verdict |-> [kind |-> "json", passed |-> "true",
                                language_match |-> TRUE],
                   regen |-> g1, fit |-> f])
           cached == [added EXCEPT ![id] =
                        [@ EXCEPT !.fitAnalysis = g.history.fitAnalysis]]
       IN  /\ lastClassify' = c
           /\ gr' = g
           /\ conversations' =
                UpdatedConversations(cached, id,
                  [sender |-> "user", content |-> g.result.text])
           /\ recordResponse(id, m.senderName, m.content, g.result.text)
           /\ counterpartOf' = [counterpartOf EXCEPT ![id] = m.thread]
  /\ agentPc' = "send"
  /\ UNCHANGED <<sendVars, aiConfig, threads, scanIdx, messages, analysisVars>>

\* the rest of the loop body: savePlannedResponse and sendMessage; an error
\* of the send is caught by the loop
SendReply ==
  /\ agentPc = "send"
  /\ trackerOp = "idle"
  /\ sendMessage(Head(messages).senderName, gr.result.text)
  /\ messages' = Tail(messages)
  /\ agentPc' = "handle"
  /\ UNCHANGED <<analysisVars,
                 trackerVars, storeVars, composeVars, threads, scanIdx,
                 lastClassify, counterpartOf>>

\* the loop is over: cleanup, and the process exits
FinishRun ==
  /\ agentPc = "handle"
  /\ messages = <<>>
  /\ agentPc' = "off"
  /\ loadPc' = "unbuilt"
  /\ responses' = <<>>
  /\ conversations' = [i \in {} |-> NoFit]
  /\ threads' = <<>>
  /\ scanIdx' = 1
  /\ lastClassify' = NoClassify
  /\ gr' = NoCall
  /\ UNCHANGED <<dataFile, trackerOp, now, recorded, runs, sendVars, aiConfig,
                 messages, counterpartOf, analysisVars>>

\* a classifyMessage call on a loaded tracker, with or without history
classifyMessage(senderName, content, withHistory) ==
  /\ \E o \in ClassifyOutcomes :
       lastClassify' = ClassifyCall(responses, senderName, content, withHistory, o)
  /\ UNCHANGED <<agentPc, threads, scanIdx, messages, counterpartOf>>

\* ai-config.yaml as loaded, with a minimum confidence of 0.3 or 0.6
ClassifyInitConfig ==
  /\ aiConfig \in [validation : {TRUE}, regenerate : {TRUE}, temperature : {7},
                    minConfidence : {3, MinConfidence}]
  /\ gr = NoCall

\* a tracker whose load has completed with one of the maps
ClassifyInit ==
  /\ responses \in TrackedMaps
  /\ dataFile = FileOf(responses)
  /\ loadPc = "done"
  /\ trackerOp = "idle"
  /\ now = 0
  /\ recorded = [id \in ConvIds |-> <<>>]
  /\ runs = 1

ClassifyNext ==
  \E n \in ClassifySenders, c \in ClassifyContents, h \in BOOLEAN :
    classifyMessage(n, c, h)

AgentNext ==
  \/ AgentConstruct
  \/ AgentInitialize
  \/ StartScan
  \/ ScanThread
  \/ HandleMessage
  \/ SendReply
  \/ FinishRun
  \/ LoadComplete /\ UNCHANGED <<storeVars, sendVars, composeVars, agentVars, analysisVars>>
  \/ SaveComplete /\ UNCHANGED <<storeVars, sendVars, composeVars, agentVars, analysisVars>>
  \/ agentPc = "off" /\ Tick
       /\ UNCHANGED <<storeVars, sendVars, composeVars, agentVars, analysisVars>>

-----------------------------------------------------------------------------
(* Analysis helpers *)

NoAnalysis == [op |-> "none"]

AnalysisInit == analysis = NoAnalysis

\* GeminiClient.evaluateJobFit(recruiterResponses, conversationHistory)
evaluateJobFitCall(recruiterResponses, history) ==
  \E f \in FitOutcomes :
    analysis' = [op |-> "evaluateJobFit",
                 recruiterResponses |-> recruiterResponses,
                 history |-> history,
                 outcome |-> f.kind,
                 result |-> evaluateJobFit(f)]

FitNext ==
  \E c \in Contents, h \in ComposeHistories \ {AbsentHistory} :
    evaluateJobFitCall(c, h)

\* outcome of the request of analyzeConversationState: it fails, or it
\* replies with a text
StrategyOutcomes == GenOutcomes

\* parseStrategyFromResponse: the reply is not read; one fixed strategy
parseStrategyFromResponse(text) ==
  [currentGoals |->
     <<[type |-> "qualify_opportunity", priority |-> 1, status |-> "in_progress"],
       [type |-> "extract_details", priority |-> 2, status |-> "pending"]>>,
   nextActions |-> <<"request_info">>,
   informationGaps |->
     <<"salary_range", "remote_work_policy", "ai_ml_projects", "tech_stack">>,
   recruiterProfile |-> [style |-> "professional", responsiveness |-> "medium",
                         credibility |-> "medium"],
   conversationPhase |-> "information_gathering"]

\* the fallback strategy of the catch block
FallbackStrategy ==
  [currentGoals |->
     <<[type |-> "qualify_opportunity", priority |-> 1, status |-> "pending"]>>,
   nextActions |-> <<"request_info">>,
   informationGaps |-> <<"salary_range", "remote_work_policy", "tech_stack">>,
   recruiterProfile |-> [style |-> "unclear", responsiveness |-> "medium",
                         credibility |-> "medium"],
   conversationPhase |-> "information_gathering"]

\* a planner whose catch block hands back the strategy of the parser
StrategyOfParserOnly(o) == parseStrategyFromResponse(o.text)

\* the strategy analyzeConversationState returns
StrategyOf(o) ==
  IF o.ok THEN parseStrategyFromResponse(o.text) ELSE FallbackStrategy

\* ConversationStrategyAgent.analyzeConversationState(conversationHistory,
\* currentMessage, userGoals)
analyzeConversationState(history, currentMessage) ==
  \E o \in StrategyOutcomes :
    analysis' = [op |-> "analyzeConversationState",
                 history |-> history,
                 currentMessage |-> currentMessage,
                 outcome |-> IF o.ok THEN "reply" ELSE "error",
                 result |-> StrategyOf(o)]

StrategyNext ==
  \E h \in ComposeHistories \ {AbsentHistory}, m \in Turns :
    analyzeConversationState(h, m)

\* matching_strategy.decision_thresholds of the system prompt
DreamJob == 90
Interested == 70
Exploring == 50

\* a tier mapping that needs a score above the threshold
EnthusiasmLevelStrict(matchScore) ==
  IF matchScore > DreamJob THEN "high"
  ELSE IF matchScore > Interested THEN "medium"
  ELSE IF matchScore > Exploring THEN "low"
  ELSE "decline"

\* the tier getEnthusiasmLevel returns
EnthusiasmLevel(matchScore) ==
  IF matchScore >= DreamJob THEN "high"
  ELSE IF matchScore >= Interested THEN "medium"
  ELSE IF matchScore >= Exploring THEN "low"
  ELSE "decline"

\* YamlConfig.getEnthusiasmLevel(matchScore)
getEnthusiasmLevel(matchScore) ==
  analysis' = [op |-> "getEnthusiasmLevel", matchScore |-> matchScore,
               result |-> EnthusiasmLevel(matchScore)]

EnthusiasmNext == \E n \in 0..MaxScore : getEnthusiasmLevel(n)

AnalysisNext ==
  \/ FitNext
  \/ StrategyNext
  \/ EnthusiasmNext

-----------------------------------------------------------------------------
(* Language detection: LanguageDetectionAgent; confidences in hundredths *)

DutchWords ==
  {"de", "het", "een", "van", "en", "in", "op", "is", "dit", "met", "voor",
   "aan", "ook", "zijn", "je", "rol", "functie", "mogelijkheden"}

EnglishWords ==
  {"the", "and", "of", "to", "in", "is", "you", "that", "it", "he", "for",
   "on", "are", "as", "with", "his", "they", "this", "role", "position"}

\* text.split(/\s+/) of a trimmed text
SplitWords(text) == SelectSeq(text, LAMBDA t : t # WS)

\* words.filter(word => list.includes(word)).length
Matches(words, list) == Len(SelectSeq(words, LAMBDA w : w \in list))

\* Math.min(0.6, 0.3 + matches * 0.05)
FallbackConfidence(matches) ==
  IF 30 + matches * 5 < 60 THEN 30 + matches * 5 ELSE 60

\* fallbackDetection: the word-list heuristic
fallbackDetection(text) ==
  LET words == SplitWords(ToLowerCase(text))
      dutchMatches == Matches(words, DutchWords)
      englishMatches == Matches(words, EnglishWords)
  IN  IF dutchMatches > englishMatches /\ dutchMatches > 0
      THEN [language |-> "nl", confidence |-> FallbackConfidence(dutchMatches),
            isReliable |-> FALSE]
      ELSE IF englishMatches > dutchMatches /\ englishMatches > 0
      THEN [language |-> "en", confidence |-> FallbackConfidence(englishMatches),
            isReliable |-> FALSE]
      ELSE [language |-> "unknown", confidence |-> 30, isReliable |-> FALSE]

\* normalizeLanguageCode: the names of the code map, else the code itself
normalizeLanguageCode(code) ==
  CASE code \in {"dutch", "netherlands"} -> "nl"
    [] code = "english" -> "en"
    [] code \in {"german", "deutsch"} -> "de"
    [] code \in {"french", "francais"} -> "fr"
    [] code \in {"spanish", "espanol"} -> "es"
    [] OTHER -> code

\* outcome of the request of one detector: it fails, its reply is not JSON,
\* or it parses to a language ("" when absent) and a confidence
DetectionOutcomes ==
  [kind : {"error", "unparsable"}, language : {""}, confidence : {AbsentConfidence}]
  \cup [kind : {"json"}, language : {"english", "fr", "es"},
         confidence : {AbsentConfidence, 40, 60, 80, 90, 150}]

\* parsed.confidence || 0
RawConfidence(c) == IF c = AbsentConfidence THEN 0 ELSE c

\* Math.max(0, Math.min(1, c))
Clamp(c) == IF c < 0 THEN 0 ELSE IF c > 100 THEN 100 ELSE c

\* a parser that hands the reported confidence on as it is
parseDetectionResponseUnclamped(o) ==
  IF o.kind = "json"
  THEN [language |-> normalizeLanguageCode(IF o.language = "" THEN "unknown"
                                           ELSE o.language),
        confidence |-> RawConfidence(o.confidence),
        isReliable |-> RawConfidence(o.confidence) >= 70]
  ELSE [language |-> "unknown", confidence |-> 0, isReliable |-> FALSE]

\* parseDetectionResponse
parseDetectionResponse(o) ==
  IF o.kind = "json"
  THEN [language |-> normalizeLanguageCode(IF o.language = "" THEN "unknown"
                                           ELSE o.language),
        confidence |-> Clamp(RawConfidence(o.confidence)),
        isReliable |-> RawConfidence(o.confidence) >= 70]
  ELSE [language |-> "unknown", confidence |-> 0, isReliable |-> FALSE]

\* primaryDetection and contextualDetection: the parsed reply, or the
\* heuristic when the request fails; the promise is fulfilled either way
Detection(text, o) ==
  [status |-> "fulfilled",
   value |-> IF o.kind = "error" THEN fallbackDetection(text)
             ELSE parseDetectionResponse(o)]

\* a consensus that prefers the second detector on equal confidence
synthesizeResultsSecondOnTie(results, originalText) ==
  LET primary == results[1].value
      secondary == results[2].value
  IN  IF primary.language = secondary.language
      THEN [language |-> primary.language,
            confidence |-> IF primary.confidence >= secondary.confidence
                           THEN primary.confidence ELSE secondary.confidence,
            isReliable |-> (primary.confidence >= 70 \/ secondary.confidence >= 70)]
      ELSE IF primary.confidence > secondary.confidence THEN primary
      ELSE secondary

\* synthesizeResults
synthesizeResults(results, originalText) ==
  LET successfulResults == SelectSeq(results, LAMBDA r : r.status = "fulfilled")
      primary == successfulResults[1].value
      secondary == successfulResults[2].value
      combinedConfidence == IF primary.confidence >= secondary.confidence
                            THEN primary.confidence ELSE secondary.confidence
  IN  IF Len(successfulResults) = 0 THEN fallbackDetection(originalText)
      ELSE IF Len(successfulResults) = 1 THEN successfulResults[1].value
      ELSE IF primary.language = secondary.language
      THEN [language |-> primary.language, confidence |-> combinedConfidence,
            isReliable |-> combinedConfidence >= 70]
      ELSE IF primary.confidence >= secondary.confidence THEN primary
      ELSE secondary

\* the texts detectLanguage is called with
DetectionTexts ==
  {<<>>, <<" ">>, <<" ", "de", " ", "rol">>, <<"the", " ", "role", " ", "is">>,
   <<"hello">>}

\* detectLanguage(text), with the outcomes of the two requests
detectLanguage(text) ==
  \E o1 \in DetectionOutcomes, o2 \in DetectionOutcomes :
    analysis' =
      IF Trim(text) = <<>>
      THEN [op |-> "detectLanguage", text |-> text, outcomes |-> <<>>,
            detections |-> <<>>,
            result |-> [language |-> "unknown", confidence |-> 0,
                        isReliable |-> FALSE]]
      ELSE [op |-> "detectLanguage", text |-> text, outcomes |-> <<o1.kind, o2.kind>>,
            detections |-> <<Detection(Trim(text), o1).value,
                             Detection(Trim(text), o2).value>>,
            result |-> synthesizeResults(<<Detection(Trim(text), o1),
                                           Detection(Trim(text), o2)>>,
                                         Trim(text))]

DetectNext == \E t \in DetectionTexts : detectLanguage(t)

-----------------------------------------------------------------------------
(* The service requests of handling one message: run(), from the
   re-classification to the reply that generateResponse returns *)

\* how a request ends: with a reply, with a reply that rejects (the
\* validator's passed: false), or with an error
RequestOutcomes == {"ok", "rejected", "fail"}

\* the verdict validateResponse parses from the outcome of its request
VerdictOf(outcome) ==
  CASE outcome = "ok" -> [kind |-> "json", passed |-> "true", language_match |-> TRUE]
    [] outcome = "rejected" ->
         [kind |-> "json", passed |-> "false", language_match |-> TRUE]
    [] OTHER -> [kind |-> "error", passed |-> "missing", language_match |-> TRUE]

\* a handler that repeats a failed regeneration request once more
NextSiteRetrying(st, outcome) ==
  LET questions == IF ~st.followUp THEN "initial_questions"
                   ELSE IF ~st.cachedFit THEN "fit" ELSE "strategy"
      prompt == IF ~st.cachedPriorities THEN "priorities" ELSE questions
  IN  CASE st.pc = "start" -> IF st.tracked THEN "detect_primary" ELSE "classify"
        [] st.pc = "classify" ->
             IF outcome = "fail" THEN "classify_fallback" ELSE "detect_primary"
        [] st.pc = "classify_fallback" -> "detect_primary"
        [] st.pc = "detect_primary" -> "detect_contextual"
        [] st.pc = "detect_contextual" -> prompt
        [] st.pc = "priorities" -> questions
        [] st.pc = "initial_questions" -> "generate"
        [] st.pc = "fit" -> "strategy"
        [] st.pc = "strategy" -> "follow_up"
        [] st.pc = "follow_up" -> IF outcome = "fail" THEN "generate" ELSE "optimize"
        [] st.pc = "optimize" -> "generate"
        [] st.pc = "generate" ->
             IF outcome # "fail" /\ aiConfig.validation THEN "validate" ELSE "done"
        [] st.pc = "validate" ->
             IF ShouldRegenerate(aiConfig, validateResponse(VerdictOf(outcome)))
             THEN "regenerate" ELSE "done"
        [] st.pc = "regenerate" ->
             IF outcome = "fail" /\ ~Includes(st.log, "regenerate")
             THEN "regenerate" ELSE "done"
        [] OTHER -> "done"

\* the request that follows the request st.pc once it has ended with
\* outcome: classifyMessage (primary model, then the fallback model after an
\* error), detectLanguage (two requests issued together, logged in order),
\* buildPrompt (the priorities unless cached; the initial questions, or on
\* the follow-up path the fit analysis unless cached, the strategy, the
\* follow-up text and its optimisation), then generation, validation and
\* regeneration
NextSite(st, outcome) ==
  LET questions == IF ~st.followUp THEN "initial_questions"
                   ELSE IF ~st.cachedFit THEN "fit" ELSE "strategy"
      prompt == IF ~st.cachedPriorities THEN "priorities" ELSE questions
  IN  CASE st.pc = "start" -> IF st.tracked THEN "detect_primary" ELSE "classify"
        [] st.pc = "classify" ->
             IF outcome = "fail" THEN "classify_fallback" ELSE "detect_primary"
        [] st.pc = "classify_fallback" -> "detect_primary"
        [] st.pc = "detect_primary" -> "detect_contextual"
        [] st.pc = "detect_contextual" -> prompt
        [] st.pc = "priorities" -> questions
        [] st.pc = "initial_questions" -> "generate"
        [] st.pc = "fit" -> "strategy"
        [] st.pc = "strategy" -> "follow_up"
        [] st.pc = "follow_up" -> IF outcome = "fail" THEN "generate" ELSE "optimize"
        [] st.pc = "optimize" -> "generate"
        [] st.pc = "generate" ->
             IF outcome # "fail" /\ aiConfig.validation THEN "validate" ELSE "done"
        [] st.pc = "validate" ->
             IF ShouldRegenerate(aiConfig, validateResponse(VerdictOf(outcome)))
             THEN "regenerate" ELSE "done"
        [] OTHER -> "done"

\* the reply generateResponse holds once the request st.pc has ended: the
\* first text, the regenerated text, or the sentence of its catch block
ReplyAfter(st, outcome) ==
  CASE st.pc = "generate" -> IF outcome = "fail" THEN "fallback" ELSE "first"
    [] st.pc = "regenerate" -> IF outcome = "fail" THEN "fallback" ELSE "regenerated"
    [] OTHER -> st.reply

\* run() starts on a message: whether its sender is tracked, whether the
\* conversation is past the initial phase and holds a fit analysis, and
\* whether the priorities were analysed before
beginHandling(tracked, followUp, cachedFit, cachedPriorities) ==
  /\ analysis = NoAnalysis \/ (analysis.op = "handle" /\ analysis.pc = "done")
  /\ LET st == [op |-> "handle", pc |-> "start", log |-> <<>>, reply |-> "none",
                tracked |-> tracked, followUp |-> followUp,
                cachedFit |-> cachedFit, cachedPriorities |-> cachedPriorities]
     IN  analysis' = [st EXCEPT !.pc = NextSite(st, "ok")]

\* the pending request returns or fails, and the handler goes on
requestReturns(outcome) ==
  /\ analysis.op = "handle"
  /\ analysis.pc # "done"
  /\ analysis' = [analysis EXCEPT !.pc = NextSite(analysis, outcome),
                                  !.log = Append(@, analysis.pc),
                                  !.reply = ReplyAfter(analysis, outcome)]

HandleNext ==
  \/ \E t \in BOOLEAN, fu \in BOOLEAN, cf \in BOOLEAN, cp \in BOOLEAN :
       beginHandling(t, fu, cf, cp)
  \/ \E o \in RequestOutcomes : requestReturns(o)

-----------------------------------------------------------------------------
(* Specifications *)

Init ==
  /\ TrackerInit /\ StoreInit /\ SendInit /\ ComposeInit /\ AgentInit
  /\ AnalysisInit

Next == AgentNext

\* the agent process, run after run over the same data file
Spec == Init /\ [][Next]_vars

\* the tracker under arbitrary calls
SpecTracker ==
  Init /\ [][TrackerNext
               /\ UNCHANGED <<storeVars, sendVars, composeVars, agentVars, analysisVars>>]_vars

\* the conversation store under arbitrary calls
SpecStore ==
  Init /\ [][StoreNext
               /\ UNCHANGED <<trackerVars, sendVars, composeVars, agentVars, analysisVars>>]_vars

\* sendMessage under every configuration
InitEnv ==
  /\ TrackerInit /\ StoreInit /\ SendInitEnv /\ ComposeInit /\ AgentInit
  /\ AnalysisInit

SpecSend ==
  /\ InitEnv
  /\ [][SendNext
          /\ UNCHANGED <<trackerVars, storeVars, composeVars, agentVars, analysisVars>>]_vars

InitLoaded ==
  /\ ClassifyInit /\ StoreInit /\ SendInit /\ ClassifyInitConfig /\ AgentInit
  /\ AnalysisInit

\* classifyMessage over every tracked map, sender, content and service outcome
SpecClassify ==
  /\ InitLoaded
  /\ [][ClassifyNext
          /\ UNCHANGED <<trackerVars, storeVars, sendVars, composeVars,
                      analysisVars>>]_vars

\* the analysis helpers over every argument and service outcome
SpecAnalysis ==
  Init /\ [][AnalysisNext
               /\ UNCHANGED <<trackerVars, storeVars, sendVars, composeVars,
                              agentVars>>]_vars

\* detectLanguage over every text and pair of service outcomes
SpecDetect ==
  Init /\ [][DetectNext
               /\ UNCHANGED <<trackerVars, storeVars, sendVars, composeVars,
                              agentVars>>]_vars

\* generateResponse under every configuration, argument and service outcome
InitConfig ==
  /\ TrackerInit /\ StoreInit /\ SendInit /\ ComposeInitConfig /\ AgentInit
  /\ AnalysisInit

SpecCompose ==
  /\ InitConfig
  /\ [][ComposeNext
          /\ UNCHANGED <<trackerVars, storeVars, sendVars, agentVars, analysisVars>>]_vars

\* the requests of one message under every configuration; every request
\* eventually returns or fails
SpecHandle ==
  /\ InitConfig
  /\ [][HandleNext
          /\ UNCHANGED <<trackerVars, storeVars, sendVars, composeVars,
                          agentVars>>]_vars
  /\ WF_vars((\E o \in RequestOutcomes : requestReturns(o))
               /\ UNCHANGED <<trackerVars, storeVars, sendVars, composeVars,
                               agentVars>>)

\* currentPhase: 'initial' | 'follow_up' | 'decision'
Phases == {"initial", "follow_up", "decision"}

\* the stores of one conversation of one turn, at any phase of the type
PhaseStates ==
  {[i \in {id} |-> [messages |-> m, currentPhase |-> ph, fitAnalysis |-> NoFit]] :
     id \in ConvIds, ph \in Phases, m \in [1..1 -> Turns]}

\* run(): without an extracted conversation, the conversation of a tracked
\* counterpart is set to follow_up
assumeFollowUp(id) ==
  /\ conversations' = SyncedConversations(conversations, responses, id, <<>>)

\* run(): generateResponse on the stored conversation, which caches a fit
\* analysis it computes, and the reply appended as a user turn
respond(id, g1, f) ==
  /\ id \in DOMAIN conversations
  /\ TotalTurns(conversations, DOMAIN conversations) < MaxTurns
  /\ LET g == GenerateResponse(aiConfig,
                [present |-> TRUE, messages |-> conversations[id].messages,
                 currentPhase |-> conversations[id].currentPhase,
                 fitAnalysis |-> conversations[id].fitAnalysis],
                [gen1 |-> g1,
                 verdict |-> [kind |-> "json", passed |-> "true",
                              language_match |-> TRUE],
                 regen |-> g1, fit |-> f])
         cached == [conversations EXCEPT ![id] =
                      [@ EXCEPT !.fitAnalysis = g.history.fitAnalysis]]
     IN  /\ gr' = g
         /\ conversations' =
              UpdatedConversations(cached, id,
                [sender |-> "user", content |-> g.result.text])
  /\ UNCHANGED aiConfig

\* the generation outcomes respond is explored with
RespondOutcomes ==
  {[ok |-> FALSE, text |-> <<>>], [ok |-> TRUE, text |-> <<"Sure">>]}

\* the operations of run() on a conversation that do not delete it
PhaseNext ==
  \/ \E id \in ConvIds, c \in Contents :
       /\ updateConversationHistory(id, [sender |-> "recruiter", content |-> c])
       /\ UNCHANGED composeVars
  \/ \E id \in ConvIds : assumeFollowUp(id) /\ UNCHANGED composeVars
  \/ \E id \in ConvIds, g1 \in RespondOutcomes, f \in RunFitOutcomes :
       respond(id, g1, f)

\* a tracker that holds a record of every counterpart, and one conversation
InitPhase ==
  /\ ClassifyInit /\ Len(responses) = Cardinality(ConvIds)
  /\ conversations \in PhaseStates /\ SendInit /\ ComposeInit
  /\ AgentInit /\ AnalysisInit

\* a conversation at any phase under the operations that keep it
SpecPhase ==
  /\ InitPhase
  /\ [][PhaseNext
          /\ UNCHANGED <<trackerVars, sendVars, agentVars, analysisVars>>]_vars

-----------------------------------------------------------------------------
(* Claims *)

\* C1: once a reply to a counterpart (the participant of a thread) is
\* recorded in the tracker, getUnreadMessages yields no further message of
\* that counterpart: a scan step that adds a message of a thread finds no
\* record in the tracker that was stored for a reply to that thread's
\* participant.
C1_AtMostOnceReply ==
  [][(agentPc = "scan" /\ Len(messages') > Len(messages))
       => \A id \in ConvIds :
            ~(MapHas(responses, id)
              /\ counterpartOf[id] = messages'[Len(messages')].thread)]_vars

\* C2: every classifyMessage call for a sender whose conversation identity
\* has a record in the tracker returns EXTERNAL_RECRUITER and issues no
\* request to the service, whatever the content, the history and the
\* service would answer.
C2_ClassifyByHistory ==
  (lastClassify # NoClassify
   /\ \E i \in 1..Len(responses) :
        responses[i].conversationId = ConversationId(lastClassify.senderName))
    => (lastClassify.result.category = "EXTERNAL_RECRUITER"
        /\ lastClassify.result.requests = 0)

\* a sender written differently from the recorded name, but with the same
\* conversation identity, was classified with history supplied
C2_Witness ==
  /\ lastClassify.senderName = <<"ANN", " ", " ", "Lee">>
  /\ lastClassify.withHistory
  /\ hasResponded(ConversationId(lastClassify.senderName))
  /\ lastClassify.result.requests = 0

\* C3: recordResponse keeps one record per conversationId. At no time does
\* the history hold two entries for one conversationId; right after a
\* recordResponse call the history holds exactly one entry for its
\* conversationId, carrying that call's message content and generated
\* response, and the entries of the other conversationIds are untouched.
C3_AtMostOneRecord ==
  /\ [](\A id \in ConvIds : Len(HistoryOf(id)) <= 1)
  /\ [][\A n \in Names, c \in Contents, r \in Replies :
          recordResponse(ConversationId(n), n, c, r) =>
            /\ HistoryOf(ConversationId(n))' =
                 <<ResponseRecord(ConversationId(n), n, now, c, r)>>
            /\ \A other \in ConvIds \ {ConversationId(n)} :
                 HistoryOf(other)' = HistoryOf(other)]_vars

\* a second recordResponse with different content has just overwritten
C3_Witness ==
  \E id \in ConvIds :
    /\ Len(recorded[id]) = 2
    /\ recorded[id][1] # recorded[id][2]
    /\ trackerOp = "saving"
    /\ Len(HistoryOf(id)) = 1
    /\ HistoryOf(id)[1].messageContent = recorded[id][2]

\* C4: a conversation is created at phase initial, is at follow_up exactly
\* when it holds more than two turns, and once at follow_up stays there
\* under further updateConversationHistory calls; it leaves follow_up only
\* by being deleted.
C4_PhaseUnderAppends ==
  /\ [](\A id \in DOMAIN conversations :
          /\ conversations[id].currentPhase \in {"initial", "follow_up"}
          /\ conversations[id].currentPhase = "follow_up"
               <=> Len(conversations[id].messages) > 2)
  /\ [][\A id \in ConvIds :
          /\ (id \notin DOMAIN conversations /\ id \in DOMAIN conversations')
               => /\ conversations'[id].currentPhase = "initial"
                  /\ Len(conversations'[id].messages) = 1
          /\ (id \in DOMAIN conversations /\ id \in DOMAIN conversations'
               /\ conversations[id].currentPhase = "follow_up")
               => conversations'[id].currentPhase = "follow_up"
          /\ (id \in DOMAIN conversations /\ id \notin DOMAIN conversations')
               => clearConversationHistory(id)]_vars

\* a conversation at follow_up has just been appended to and is still there
C4_Witness ==
  \E id \in DOMAIN conversations :
    /\ Len(conversations[id].messages) > 3
    /\ conversations[id].currentPhase = "follow_up"


\* C5: in safe mode sendMessage never reaches performActualSend; every call
\* only logs a mock_send_message action.
C5_SafeModeNeverSends ==
  runMode = "safe" =>
    /\ actualSends = <<>>
    /\ \A i \in 1..Len(actionLogs) :
         actionLogs[i].action = "mock_send_message"

\* sendMessage has been called in safe mode
C5_Witness == runMode = "safe" /\ Len(actionLogs) > 0

\* C6: in debug mode sendMessage never reaches performActualSend, whatever
\* requireApproval is.
C6_DebugModeNeverSends == runMode = "debug" => actualSends = <<>>

\* C7: after startup, while messages are processed, the tracker holds no
\* record older than the retention window.
C7_RetentionPurge ==
  agentPc \in {"scan", "handle", "send"} =>
    \A i \in 1..Len(responses) :
      ~(responses[i].respondedAt < now - DaysToKeep)

\* C8: generateResponse returns a non-empty string on every path.
C8_NoEmptyReply ==
  gr.result.kind # "none" =>
    gr.result.kind = "returned" /\ gr.result.text # <<>>

\* C9: when prompt construction, the first generation request or the
\* regeneration request raises an error, generateResponse returns (does not
\* throw) and what it returns is the fixed fallback sentence.
C9_FallbackOnError ==
  gr.error # "none" =>
    gr.result = [kind |-> "returned", text |-> FallbackResponse]

\* the regeneration request failed after a first reply had been generated
C9_Witness ==
  /\ gr.error = "regen"
  /\ gr.first # <<>>
  /\ gr.result.text = FallbackResponse

C12_FitEvaluatorDefault ==
  (analysis.op = "evaluateJobFit" /\ analysis.outcome \in {"error", "unparsable"})
    => /\ analysis.result.present
       /\ analysis.result.overallScore = 50
       /\ analysis.result.recommendation = "exploring"
       /\ analysis.result.missingInfo =
            <<"Salary details", "Work arrangement details">>

\* the reply of the service could not be parsed
C12_Witness ==
  /\ analysis.op = "evaluateJobFit"
  /\ analysis.outcome = "unparsable"
  /\ analysis.result.overallScore = 50

\* C13: when the request of analyzeConversationState fails, it returns
\* (never throws) one and the same default strategy: the single goal
\* qualify_opportunity, phase information_gathering and the fixed gap list.
C13_StrategyFallback ==
  (analysis.op = "analyzeConversationState" /\ analysis.outcome = "error")
    => /\ Len(analysis.result.currentGoals) = 1
       /\ analysis.result.currentGoals[1].type = "qualify_opportunity"
       /\ analysis.result.conversationPhase = "information_gathering"
       /\ analysis.result.informationGaps =
            <<"salary_range", "remote_work_policy", "tech_stack">>
       /\ analysis.result = FallbackStrategy

\* the request failed for a follow-up conversation
C13_Witness ==
  /\ analysis.op = "analyzeConversationState"
  /\ analysis.outcome = "error"
  /\ analysis.history.currentPhase = "follow_up"
  /\ Len(analysis.result.currentGoals) = 1

\* C14: when the primary classification request fails, exactly one further
\* request goes to the fallback model; when that one fails too, the category
\* is the known token found in the text of the message, and OTHER if there
\* is none.
C14_ClassifierFailureChain ==
  (/\ lastClassify # NoClassify
   /\ ~hasResponded(ConversationId(lastClassify.senderName))
   /\ lastClassify.outcome.kind = "error")
    => /\ lastClassify.result.requests = 2
       /\ ~lastClassify.outcome.fallback.ok
            => lastClassify.result.category =
                 MatchCategoryTokens(lastClassify.content)

\* C15: for a parsed classification reply that reports a confidence c (0
\* included) and a configured minimum m, classifyMessage returns OTHER when
\* c < m and the reported category otherwise.
C15_LowConfidenceDowngrade ==
  (/\ lastClassify # NoClassify
   /\ ~hasResponded(ConversationId(lastClassify.senderName))
   /\ lastClassify.outcome.kind = "json"
   /\ lastClassify.outcome.confidence # AbsentConfidence)
    => lastClassify.result.category =
         IF lastClassify.outcome.confidence < aiConfig.minConfidence
         THEN "OTHER"
         ELSE IF lastClassify.outcome.classification = "" THEN "OTHER"
         ELSE lastClassify.outcome.classification

\* C16: the detected language and confidence are those of the detector with
\* the higher confidence, the primary one on a tie; when the two agree on
\* the language the confidence is the larger of the two and the result is
\* reliable exactly when that confidence is at least 0.7.
C16_LanguageConsensus ==
  (analysis.op = "detectLanguage" /\ Len(analysis.detections) = 2)
    => LET primary == analysis.detections[1]
           secondary == analysis.detections[2]
           best == IF primary.confidence >= secondary.confidence
                   THEN primary ELSE secondary
       IN  /\ analysis.result.language = best.language
           /\ analysis.result.confidence = best.confidence
           /\ primary.language = secondary.language
                => analysis.result.isReliable = (best.confidence >= 70)

\* the detectors disagree, fr at 0.9 against es at 0.4, and fr at 0.9 is
\* the result
C16_Witness ==
  /\ analysis.op = "detectLanguage"
  /\ Len(analysis.detections) = 2
  /\ analysis.detections[1] = [language |-> "fr", confidence |-> 90, isReliable |-> TRUE]
  /\ analysis.detections[2] = [language |-> "es", confidence |-> 40, isReliable |-> FALSE]
  /\ analysis.result.language = "fr"
  /\ analysis.result.confidence = 90

\* C17: when both requests of detectLanguage fail, by an error or by a reply
\* that cannot be parsed, the result is that of the word-list heuristic,
\* with a confidence between 0.3 and 0.6 and not reliable.
C17_LexicalFallback ==
  (/\ analysis.op = "detectLanguage"
   /\ Len(analysis.outcomes) = 2
   /\ analysis.outcomes[1] \in {"error", "unparsable"}
   /\ analysis.outcomes[2] \in {"error", "unparsable"})
    => /\ analysis.result = fallbackDetection(Trim(analysis.text))
       /\ analysis.result.confidence >= 30
       /\ analysis.result.confidence <= 60
       /\ ~analysis.result.isReliable

C19_Rank(tier) ==
  CASE tier = "decline" -> 0 [] tier = "low" -> 1 [] tier = "medium" -> 2
    [] tier = "high" -> 3

\* C19: with thresholds 90, 70 and 50, getEnthusiasmLevel maps a score to
\* high from 90, medium from 70 to 89, low from 50 to 69 and decline below;
\* no lower score has a higher tier.
C19_ScoreTiers ==
  analysis.op = "getEnthusiasmLevel"
    => /\ analysis.result =
            (IF analysis.matchScore >= 90 THEN "high"
             ELSE IF analysis.matchScore >= 70 THEN "medium"
             ELSE IF analysis.matchScore >= 50 THEN "low"
             ELSE "decline")
       /\ \A lower \in 0..analysis.matchScore :
            C19_Rank(EnthusiasmLevel(lower)) <= C19_Rank(analysis.result)

\* a score exactly at the threshold of the highest tier
C19_Witness ==
  /\ analysis.op = "getEnthusiasmLevel"
  /\ analysis.matchScore = 90
  /\ analysis.result = "high"

\* C20: when generateResponse is called for a conversation whose phase is
\* not initial and whose history holds no recruiter turn, the error 'No
\* recruiter message found in conversation history' reaches the caller as
\* an error; no reply is returned.
C20_MissingDataPropagates ==
  (/\ gr.result.kind # "none"
   /\ gr.history.present
   /\ gr.history.currentPhase # "initial"
   /\ \A i \in 1..Len(gr.history.messages) :
        gr.history.messages[i].sender # "recruiter")
    => gr.result.kind = "thrown"

\* the order initial < follow_up < decision
C21_PhaseRank(phase) ==
  CASE phase = "initial" -> 0
    [] phase = "follow_up" -> 1
    [] phase = "decision" -> 2

C22_FitCacheInvalidated ==
  [][\A id \in ConvIds, g1 \in RespondOutcomes, f \in RunFitOutcomes :
       (/\ respond(id, g1, f)
        /\ conversations[id].fitAnalysis.present
        /\ conversations[id].currentPhase # "initial"
        /\ conversations[id].messages[Len(conversations[id].messages)].sender
             = "recruiter")
         => conversations'[id].fitAnalysis = evaluateJobFit(f)]_vars

\* the counterpart turns of a history, in order
C23_RecruiterTurns(turns) == SelectSeq(turns, LAMBDA t : t.sender = "recruiter")

\* C23: after run() has handled a message, no conversation history holds a
\* recruiter turn whose trimmed content equals the trimmed content of the
\* recruiter turn before it, with or without a user turn between the two.
C23_NoDuplicateTurn ==
  \A id \in DOMAIN conversations :
    \A i \in 2..Len(C23_RecruiterTurns(conversations[id].messages)) :
      Trim(C23_RecruiterTurns(conversations[id].messages)[i].content)
        # Trim(C23_RecruiterTurns(conversations[id].messages)[i - 1].content)

\* C24: a verdict that reports a language mismatch (language_match false)
\* makes validateResponse answer false, whatever its passed field says, and
\* with validation and regeneration enabled every generateResponse call
\* whose validator returns such a verdict for its first reply regenerates.
C24_LanguageMismatchRegenerates ==
  [][(aiConfig.validation /\ aiConfig.regenerate) =>
       \A v \in {w \in Verdicts : w.kind = "json" /\ ~w.language_match} :
         \A h \in {x \in ComposeHistories : ~BuildPromptThrows(x)} :
           \A g1 \in {x \in GenOutcomes : x.ok}, g2 \in GenOutcomes,
              f \in RunFitOutcomes :
             gr' = GenerateResponse(aiConfig, h,
                     [gen1 |-> g1, verdict |-> v, regen |-> g2, fit |-> f])
               => (~validateResponse(v) /\ gr'.regenerated)]_vars

\* C25: whatever the configured response-generation temperature is, the
\* temperature of the regeneration request of generateResponse (in tenths)
\* is strictly lower than it.
C25_RetryTemperatureLower ==
  gr.regenerated => gr.retryTemperature < aiConfig.temperature

\* C26: handling one message always ends with a reply value, for every
\* pattern of request outcomes; no request site is visited twice, so the
\* number of requests is bounded by the number of sites and the only
\* retries are the one fallback classification and the one regeneration.
C26_BoundedHandling ==
  /\ [](analysis.op = "handle" =>
          /\ \A i \in 1..Len(analysis.log), j \in 1..Len(analysis.log) :
               analysis.log[i] = analysis.log[j] => i = j
          /\ analysis.pc = "done" => analysis.reply # "none")
  /\ (analysis.op = "handle") ~> (analysis.op = "handle" /\ analysis.pc = "done")

\* a message was handled with both retries: the fallback classification
\* and a regeneration that failed
C26_Witness ==
  /\ analysis.op = "handle"
  /\ analysis.pc = "done"
  /\ Includes(analysis.log, "classify_fallback")
  /\ Includes(analysis.log, "optimize")
  /\ Includes(analysis.log, "regenerate")
  /\ analysis.reply = "fallback"

\* C27: run() generates, records and hands to the sender a reply only for
\* a message whose classification at that time, the one of the
\* re-classification with conversation context, is INTERNAL_RECRUITER or
\* EXTERNAL_RECRUITER.
C27_OnlyRecruitersAnswered ==
  agentPc = "send" =>
    /\ lastClassify.withHistory
    /\ lastClassify.result.category \in {"INTERNAL_RECRUITER", "EXTERNAL_RECRUITER"}

\* C28: a response whose recordResponse call has returned survives the
\* completion of the load that the constructor started: for every
\* conversationId in the map when no save is pending, the load leaves
\* hasResponded true and the recorded message content in place, whether it
\* succeeds or fails.
C28_RecordSurvivesLoad ==
  [][(LoadComplete /\ trackerOp = "idle") =>
       \A id \in ConvIds :
         MapHas(responses, id) =>
           /\ MapHas(responses', id)
           /\ MapGet(responses', id).messageContent
                = MapGet(responses, id).messageContent]_vars

\* C29: when run() attempts sendMessage for a message, recordResponse for
\* its conversation has completed and the record is in the tracker, and it
\* is still there after the attempt, whatever its outcome; and in every
\* later run whose load has completed, every conversation a reply was
\* recorded for is treated as responded.
C29_RecordPrecedesSend ==
  /\ [][(agentPc = "send" /\ agentPc' = "handle") =>
          /\ trackerOp = "idle"
          /\ hasResponded(ConversationId(Head(messages).senderName))
          /\ MapHas(responses', ConversationId(Head(messages).senderName))]_vars
  /\ []((runs > 1 /\ loadPc = "done" /\ agentPc \in {"ready", "scan"}) =>
          \A id \in ConvIds : recorded[id] # <<>> => hasResponded(id))

\* C30: when the validation request fails or its reply is not JSON,
\* validateResponse answers true: generateResponse issues no regeneration
\* request and returns the first generated reply as it is.
C30_ValidatorFailOpen ==
  gr.verdict \in {"error", "unparsable"} =>
    /\ gr.isValid
    /\ ~gr.regenerated
    /\ gr.requests = 1
    /\ gr.result = [kind |-> "returned", text |-> gr.first]

\* with regeneration enabled, the validation request failed after a
\* non-empty first reply, and that reply was returned
C30_Witness ==
  /\ gr.verdict = "error"
  /\ aiConfig.validation /\ aiConfig.regenerate
  /\ gr.first # <<>>
  /\ gr.result.text = gr.first

\* C10: with validation and regeneration enabled, when the first reply (a
\* non-empty one) fails validation and the regeneration yields the very
\* reply that was rejected, the fallback sentence is returned, not the
\* rejected reply.
C10_FallbackWhenBothFail ==
  (/\ aiConfig.validation /\ aiConfig.regenerate
   /\ gr.validated /\ ~gr.isValid
   /\ gr.regenerated /\ gr.error = "none"
   /\ gr.first # <<>>
   /\ gr.regenText = gr.first)
    => gr.result.text = FallbackResponse

====
